---- MODULE Spec2Model ----
(***************************************************************************)
(* Model of the discrete_law crate (src/discrete_law/src/lib.rs): the CDF  *)
(* builder cdf_from, the index sampler position / Distribution<usize>::    *)
(* sample, the labelled experiment DiscreteFiniteRandomExperiment and its  *)
(* print_simulation helper, with the law rescaling of the command line     *)
(* front end (src/brouillon/src/lib.rs, parse_law).                        *)
(*                                                                         *)
(* f64 is modelled as a binary floating-point format with a significand of *)
(* MantissaBits bits, round-to-nearest-even, and an exponent range wide    *)
(* enough for every value the bounded inputs produce (no overflow, no      *)
(* underflow).  Division by zero gives NaN or an infinity as in IEEE 754.  *)
(***************************************************************************)
EXTENDS Integers, Sequences, FiniteSets, TLC

VARIABLES
    bsearch,   \* which slice::binary_search the toolchain ships
    seed,      \* the value both generators were seeded with
    rng1, rng2,            \* states of the two generators
    st, omega, law, cdf,   \* first experiment: lifecycle, omega, _law, cdf
    st2, omega2, law2, cdf2,   \* second experiment
    log1, log2,            \* per draw: the uniform value and the index returned
    out1, out2,            \* labels returned by sample
    sim                    \* print_simulation: draws made and lines printed

\* ---------------------------------------------------------------- bounds
\* longest ratio vector / sample space enumerated
MaxLen == 3
\* draws per experiment
MaxDraws == 2
\* significand width of the modelled f64 (53 in the program)
MantissaBits == 5
\* resolution of the uniform source: u is a multiple of 2^-UniformBits (52 in the program)
UniformBits == 2

\* ------------------------------------------------------------ f64 values
\* A finite value n/d is <<n, d>> with d a power of two, in lowest terms.
\* d = 0 marks the values a division by zero produces.
NaN == <<0, 0>>
PosInf == <<1, 0>>
NegInf == <<-1, 0>>

IsNaN(x) == x = NaN

Abs(n) == IF n < 0 THEN -n ELSE n

RECURSIVE Reduce(_, _)
Reduce(n, d) ==
    IF d > 1 /\ n % 2 = 0 THEN Reduce(n \div 2, d \div 2) ELSE <<n, d>>

\* a/d * 2^t with a, d > 0, scaled until the quotient has MantissaBits bits,
\* then rounded to the nearest integer, ties to even: <<significand, exponent>>
RECURSIVE RoundPos(_, _, _)
RoundPos(a, d, t) ==
    IF a < d * 2^(MantissaBits - 1) THEN RoundPos(2 * a, d, t - 1)
    ELSE IF a >= d * 2^MantissaBits THEN RoundPos(a, 2 * d, t + 1)
    ELSE LET q == a \div d
             r == a % d
             m == IF 2 * r < d THEN q
                  ELSE IF 2 * r > d THEN q + 1
                  ELSE IF q % 2 = 0 THEN q ELSE q + 1
         IN  <<m, t>>

\* the f64 nearest to the rational n/d (d > 0)
Round(n, d) ==
    IF n = 0 THEN <<0, 1>>
    ELSE LET s == IF n < 0 THEN -1 ELSE 1
             r == RoundPos(Abs(n), d, 0)
         IN  IF r[2] >= 0 THEN <<s * r[1] * 2^r[2], 1>>
             ELSE Reduce(s * r[1], 2^(-r[2]))

FromInt(n) == Round(n, 1)

\* x + y on finite operands
FAdd(x, y) == Round(x[1] * y[2] + y[1] * x[2], x[2] * y[2])

\* x / y on finite operands; y = 0 gives NaN (0/0) or a signed infinity
FDiv(x, y) ==
    IF y[1] = 0
    THEN IF x[1] = 0 THEN NaN ELSE IF x[1] > 0 THEN PosInf ELSE NegInf
    ELSE IF y[1] > 0 THEN Round(x[1] * y[2], x[2] * y[1])
         ELSE Round(-(x[1] * y[2]), x[2] * (-y[1]))

\* x < y in IEEE order (false when either side is NaN)
FLess(x, y) ==
    /\ ~IsNaN(x) /\ ~IsNaN(y)
    /\ IF x[2] = 0 /\ y[2] = 0 THEN x[1] < y[1]
       ELSE x[1] * y[2] < y[1] * x[2]

\* OrderedFloat's total order: the IEEE order, NaN above everything and equal to itself
Cmp(x, y) ==
    IF FLess(x, y) THEN "Less"
    ELSE IF FLess(y, x) THEN "Greater"
    ELSE IF IsNaN(x) THEN (IF IsNaN(y) THEN "Equal" ELSE "Greater")
    ELSE IF IsNaN(y) THEN "Less"
    ELSE "Equal"

Leq(x, y) == Cmp(x, y) # "Greater"

\* ----------------------------------------------------------- CDF builder
\* iter.accumulate(init, |acc, item| acc + *item): the running sums, seed excluded
RECURSIVE accumulate(_, _)
accumulate(init, items) ==
    IF items = <<>> THEN <<>>
    ELSE LET a == FAdd(init, Head(items))
         IN  <<a>> \o accumulate(a, Tail(items))

\* cdf[cdf.len()-1] on an empty vector: the construction panics
cdf_panics(ratios) == Len(ratios) = 0

\* cdf_from normalising by the sum of the running sums instead of the last one
cdf_from_total_of_sums(ratios) ==
    LET sums == accumulate(FromInt(0), ratios)
        total == accumulate(FromInt(0), sums)[Len(sums)]
    IN  [i \in 1..Len(sums) |-> FDiv(sums[i], total)]

\* cdf_from normalising by the first running sum instead of the last one
cdf_from_first_total(ratios) ==
    LET sums == accumulate(FromInt(0), ratios)
        total == sums[1]
    IN  [i \in 1..Len(sums) |-> FDiv(sums[i], total)]

\* cdf_from without the normalisation pass
cdf_from_unnormalized(ratios) == accumulate(FromInt(0), ratios)

cdf_from(ratios) ==
    LET sums == accumulate(FromInt(0), ratios)
        total == sums[Len(sums)]
    IN  [i \in 1..Len(sums) |-> FDiv(sums[i], total)]

\* --------------------------------------------------------- index sampler
\* slice::binary_search of the toolchains 1.52 .. 1.81: returns at the first
\* probe that compares Equal.  Indices are 0-based, as in the program.
RECURSIVE search_early(_, _, _, _)
search_early(list, value, left, right) ==
    IF left < right
    THEN LET mid == left + (right - left) \div 2
             cmp == Cmp(list[mid + 1], value)
         IN  IF cmp = "Less" THEN search_early(list, value, mid + 1, right)
             ELSE IF cmp = "Greater" THEN search_early(list, value, left, mid)
             ELSE mid
    ELSE left

\* slice::binary_search of the toolchains from 1.82 on: halves the range down
\* to one element and compares once more.
RECURSIVE search_base(_, _, _, _)
search_base(list, value, base, size) ==
    IF size > 1
    THEN LET half == size \div 2
             mid == base + half
         IN  search_base(list, value,
                         IF Cmp(list[mid + 1], value) = "Greater" THEN base ELSE mid,
                         size - half)
    ELSE base

search_branchless(list, value) ==
    LET base == search_base(list, value, 0, Len(list))
        cmp == Cmp(list[base + 1], value)
    IN  IF cmp = "Less" THEN base + 1 ELSE base

\* match list.binary_search(&value) { Ok(i) | Err(i) => i }
position(list, value) ==
    IF bsearch = "early_return" THEN search_early(list, value, 0, Len(list))
    ELSE search_branchless(list, value)

\* -------------------------------------------------------- uniform source
\* A seeded generator is a deterministic function of its state; the state is
\* reduced to UniformBits bits and stepped by a full-period congruence.
Seeds == 0 .. (2^UniformBits - 1)

RngNext(s) == (5 * s + 1) % 2^UniformBits

RECURSIVE RngIter(_, _)
RngIter(s, n) == IF n = 0 THEN s ELSE RngIter(RngNext(s), n - 1)

\* rng.sample(Uniform::new(0.0, 1.0)): a multiple of 2^-UniformBits in [0, 1)
Uniform(s) == Reduce(s, 2^UniformBits)

\* sample drawing a second uniform value and using that one
sample_index_two_values(c, rng) ==
    [u |-> Uniform(RngNext(rng)), i |-> position(c, Uniform(RngNext(rng))),
     rng |-> RngNext(RngNext(rng))]

\* Distribution<usize>::sample: one uniform value, then position
sample_index(c, rng) ==
    [u |-> Uniform(rng), i |-> position(c, Uniform(rng)), rng |-> RngNext(rng)]

\* ----------------------------------------------------------------- inputs
Ratios == {-1, 0, 1, 2}

RECURSIVE SeqsOf(_, _)
SeqsOf(S, n) ==
    IF n = 0 THEN {<<>>}
    ELSE SeqsOf(S, n - 1) \cup
         {Append(q, x) : q \in {p \in SeqsOf(S, n - 1) : Len(p) = n - 1}, x \in S}

Iota(n) == [i \in 1..n |-> i]

\* the loaded die of tests::distribution_check
DieOmega == Iota(6)
DieLaw == <<1, 4, 4, 4, 4, 7>>

\* sample spaces: shorter than, as long as and longer than the ratio vectors
\* they are paired with, and one with repeated labels
OmegaInputs ==
    {Iota(MaxLen - 1), Iota(MaxLen), [i \in 1..MaxLen |-> 1 + (i % 2)]}

\* ratio vectors: every vector of nonnegative ratios up to MaxLen entries, and
\* every vector with negative entries up to MaxLen - 1 entries
LawInputs == SeqsOf(Ratios \ {-1}, MaxLen) \cup SeqsOf(Ratios, MaxLen - 1)

NewInputs == (OmegaInputs \X LawInputs) \cup {<<DieOmega, DieLaw>>}

ToFloats(r) == [i \in 1..Len(r) |-> FromInt(r[i])]

\* divisors of the rescaling x / law_sum
Betas == {FromInt(2), Round(1, 2), FromInt(3), FromInt(5)}

\* ------------------------------------------------------------ transitions
Init ==
    /\ bsearch \in {"early_return", "branchless"}
    /\ seed \in Seeds
    /\ rng1 = seed
    /\ rng2 = seed
    /\ st = "none" /\ omega = <<>> /\ law = <<>> /\ cdf = <<>>
    /\ st2 = "none" /\ omega2 = <<>> /\ law2 = <<>> /\ cdf2 = <<>>
    /\ log1 = <<>> /\ out1 = <<>>
    /\ log2 = <<>> /\ out2 = <<>>
    /\ sim = [status |-> "idle", n |-> 0, labels |-> <<>>, lines |-> <<>>]

\* DiscreteFiniteRandomExperiment::new(omega, law), through
\* DiscreteFiniteDistribution::new and cdf_from
New ==
    /\ st = "none"
    /\ \E arg \in NewInputs :
         LET r == ToFloats(arg[2])
         IN  IF cdf_panics(r)
             THEN /\ st' = "new_panicked"
                  /\ UNCHANGED <<omega, law, cdf>>
             ELSE /\ st' = "built"
                  /\ omega' = arg[1]
                  /\ law' = r
                  /\ cdf' = cdf_from(r)
    /\ UNCHANGED <<bsearch, seed, rng1, rng2, st2, omega2, law2, cdf2,
                   log1, out1, log2, out2, sim>>

\* a second experiment built from the same (omega, law)
NewTwin ==
    /\ st = "built" /\ st2 = "none"
    /\ st2' = "built"
    /\ omega2' = omega
    /\ law2' = law
    /\ cdf2' = cdf_from(law)
    /\ UNCHANGED <<bsearch, seed, rng1, rng2, st, omega, law, cdf,
                   log1, out1, log2, out2, sim>>

\* res.iter_mut().for_each(|x| *x = *x / law_sum)
rescale(r, beta) == [i \in 1..Len(r) |-> FDiv(r[i], beta)]

\* a second experiment built from the rescaled law
NewScaled ==
    /\ st = "built" /\ st2 = "none"
    /\ \E beta \in Betas :
         /\ law2' = rescale(law, beta)
         /\ cdf2' = cdf_from(rescale(law, beta))
    /\ st2' = "built"
    /\ omega2' = omega
    /\ UNCHANGED <<bsearch, seed, rng1, rng2, st, omega, law, cdf,
                   log1, out1, log2, out2, sim>>

\* Distribution<T>::sample on the first experiment with the first generator:
\* self.omega[Distribution::sample(&self.distribution, rng)].clone()
Sample1 ==
    /\ st = "built" /\ Len(log1) < MaxDraws
    /\ LET d == sample_index(cdf, rng1)
       IN  /\ rng1' = d.rng
           /\ log1' = Append(log1, [u |-> d.u, i |-> d.i])
           /\ IF d.i < Len(omega)
              THEN out1' = Append(out1, omega[d.i + 1]) /\ st' = st
              ELSE out1' = out1 /\ st' = "sample_panicked"
    /\ UNCHANGED <<bsearch, seed, rng2, omega, law, cdf, st2, omega2, law2, cdf2,
                   log2, out2, sim>>

\* the same on the second experiment with the second generator
Sample2 ==
    /\ st2 = "built" /\ Len(log2) < MaxDraws
    /\ LET d == sample_index(cdf2, rng2)
       IN  /\ rng2' = d.rng
           /\ log2' = Append(log2, [u |-> d.u, i |-> d.i])
           /\ IF d.i < Len(omega2)
              THEN out2' = Append(out2, omega2[d.i + 1]) /\ st2' = st2
              ELSE out2' = out2 /\ st2' = "sample_panicked"
    /\ UNCHANGED <<bsearch, seed, rng1, st, omega, law, cdf, omega2, law2, cdf2,
                   log1, out1, sim>>

vars == <<bsearch, seed, rng1, rng2, st, omega, law, cdf, st2, omega2, law2, cdf2,
          log1, out1, log2, out2, sim>>

Next == New \/ NewTwin \/ Sample1 \/ Sample2

Spec == Init /\ [][Next]_vars

\* construction alone
NextBuild == New

SpecBuild == Init /\ [][NextBuild]_vars

NextScale == New \/ NewScaled

SpecScale == Init /\ [][NextScale]_vars

Min(S) == CHOOSE x \in S : \A y \in S : x <= y

\* print_simulation(n): n draws from a fresh thread generator counted in a
\* table, then one line per position of omega with count as f64 / n as f64.
\* A draw that panics ends the call before anything is printed.
PrintSimulation ==
    /\ st = "built" /\ sim.status = "idle"
    /\ \E n \in 0..MaxDraws, s \in Seeds :
         LET idx == [j \in 1..n |-> sample_index(cdf, RngIter(s, j - 1)).i]
             bad == {j \in 1..n : idx[j] >= Len(omega)}
         IN  IF bad # {}
             THEN /\ sim' = [status |-> "panicked", n |-> n,
                              labels |-> [j \in 1..(Min(bad) - 1) |-> omega[idx[j] + 1]],
                              lines |-> <<>>]
                  /\ st' = "sample_panicked"
             ELSE LET labels == [j \in 1..n |-> omega[idx[j] + 1]]
                      table == [o \in {labels[j] : j \in 1..n} |->
                                   Cardinality({j \in 1..n : labels[j] = o})]
                      get(o) == IF o \in DOMAIN table THEN table[o] ELSE 0
                  IN  /\ sim' = [status |-> "done", n |-> n, labels |-> labels,
                                  lines |-> [p \in 1..Len(omega) |->
                                      [label |-> omega[p],
                                       value |-> FDiv(FromInt(get(omega[p])), FromInt(n))]]]
                      /\ st' = st
    /\ UNCHANGED <<bsearch, seed, rng1, rng2, omega, law, cdf, st2, omega2, law2, cdf2,
                   log1, out1, log2, out2>>

NextSim == New \/ PrintSimulation

SpecSim == Init /\ [][NextSim]_vars

\* ------------------------------------------------------------------ claims
Range(q) == {q[i] : i \in DOMAIN q}

\* a valid ratio vector: nonempty, no negative entry, positive sum
Valid(r) ==
    /\ Len(r) >= 1
    /\ \A i \in DOMAIN r : r[i][1] >= 0
    /\ \E i \in DOMAIN r : r[i][1] > 0

Exists1 == st \in {"built", "sample_panicked"}

\* the smallest 0-based index i with u <= c[i], Len(c) when there is none
SmallestIdx(c, u) ==
    LET S == {i \in 0..(Len(c) - 1) : Leq(u, c[i + 1])}
    IN  IF S = {} THEN Len(c) ELSE Min(S)

\* C1: for a valid ratio vector, every draw returns the smallest index i with
\* u <= cdf[i], also when u equals one or several entries of the table.
C1_SmallestIndex ==
    (Exists1 /\ Valid(law)) =>
        \A j \in DOMAIN log1 : log1[j].i = SmallestIdx(cdf, log1[j].u)

\* C2: for a valid ratio vector, the index returned by a draw is strictly
\* less than the length of the table.
C2_IndexInRange ==
    (Exists1 /\ Valid(law)) =>
        \A j \in DOMAIN log1 : log1[j].i < Len(cdf)

\* a draw above every entry but the last returned the last index
C2_Witness ==
    /\ Exists1 /\ Valid(law) /\ Len(cdf) >= 2
    /\ \E j \in DOMAIN log1 :
         /\ log1[j].i = Len(cdf) - 1
         /\ FLess(cdf[Len(cdf) - 1], log1[j].u)

\* C3: no experiment exists whose omega and table differ in length.
C3_ShapeChecked == Exists1 => Len(omega) = Len(cdf)

\* C4: no object exists whose ratio vector is invalid (empty, a negative
\* entry, or a zero sum).
C4_InvalidLawRejected == Exists1 => Valid(law)

\* C5: for a valid ratio vector, no draw returns an index whose ratio is 0.
C5_NoZeroMassIndex ==
    (Exists1 /\ Valid(law)) =>
        \A j \in DOMAIN log1 :
            log1[j].i < Len(law) => law[log1[j].i + 1][1] # 0

RECURSIVE PrefixSum(_, _)
PrefixSum(r, i) == IF i = 0 THEN FromInt(0) ELSE FAdd(PrefixSum(r, i - 1), r[i])

C7_SamplingNeverFails ==
    /\ st # "sample_panicked"
    /\ \A j \in DOMAIN out1 : out1[j] \in Range(omega)

\* C8: print_simulation(n) with n >= 1 makes exactly n draws and then prints
\* one line per position of omega, in order, showing count/n where count is
\* the number of the n draws whose label equals the line's label.
C8_Tabulation ==
    (sim.status # "idle" /\ sim.n >= 1) =>
        /\ sim.status = "done"
        /\ Len(sim.labels) = sim.n
        /\ Len(sim.lines) = Len(omega)
        /\ \A p \in DOMAIN sim.lines :
             /\ sim.lines[p].label = omega[p]
             /\ sim.lines[p].value =
                    FDiv(FromInt(Cardinality({j \in DOMAIN sim.labels :
                                                sim.labels[j] = omega[p]})),
                         FromInt(sim.n))

SameIndex(c1, c2) ==
    \A s \in Seeds : sample_index(c1, s).i = sample_index(c2, s).i

\* C9: for a valid ratio vector, the table of the rescaled vector equals the
\* table of the vector entry by entry, and a draw returns the same index
\* for the same uniform value under both.
C9_ScaleInvariant ==
    (Exists1 /\ st2 = "built" /\ Valid(law)) =>
        (cdf2 = cdf /\ SameIndex(cdf2, cdf))

\* the scale factors that are powers of two
Pow2Betas == {FromInt(2), Round(1, 2)}

\* C9 as amended: the same for a scale factor that is a power of two.
C9_ScaleInvariantPow2 ==
    (Exists1 /\ st2 = "built" /\ Valid(law)
        /\ \E beta \in Pow2Betas : law2 = rescale(law, beta)) =>
        (cdf2 = cdf /\ SameIndex(cdf2, cdf))

\* a vector whose table holds a rounded entry has been rescaled by 1/2 or 2
C9_Witness ==
    /\ st2 = "built" /\ Valid(law)
    /\ \E beta \in Pow2Betas : law2 = rescale(law, beta)
    /\ law2 # law
    /\ \E i \in DOMAIN cdf : cdf[i] = FDiv(FromInt(1), FromInt(3))

\* C10: two experiments built from the same (omega, law) and driven by two
\* generators seeded alike return the same labels; each draw consumes one
\* uniform value and the j-th label depends on the j-th value only.
C10_Deterministic ==
    (omega2 = omega /\ law2 = law /\ st2 # "none") =>
        /\ \A j \in DOMAIN out1 \cap DOMAIN out2 : out1[j] = out2[j]
        /\ \A j \in DOMAIN log1 \cap DOMAIN log2 : log1[j] = log2[j]
        /\ rng1 = RngIter(seed, Len(log1))
        /\ rng2 = RngIter(seed, Len(log2))
        /\ \A j \in DOMAIN out1 :
             out1[j] = omega[position(cdf, Uniform(RngIter(seed, j - 1))) + 1]
        /\ \A j \in DOMAIN out2 :
             out2[j] = omega2[position(cdf2, Uniform(RngIter(seed, j - 1))) + 1]

\* both experiments made two draws, and the two labels differ
C10_Witness ==
    /\ st2 = "built" /\ omega2 = omega /\ law2 = law
    /\ Len(out1) = 2 /\ Len(out2) = 2
    /\ out1[1] # out1[2]

====
